---- MODULE Spec2Model ----
(***************************************************************************)
(* Faster R-CNN orchestrator (frcnn/network.py): construction, the forward *)
(* pass (_build), the anchor grid (_generate_anchors) and the joint loss.   *)
(* Tensors are sequences (rank 1), sequences of rows (rank 2) and sequences *)
(* of matrices (rank 3); coordinates and loss values are integers.          *)
(***************************************************************************)
EXTENDS Integers, Sequences, FiniteSets, TLC

VARIABLES
    status,            \* "new" before __init__, "ready" after it, "failed" if it raised
    error,             \* exception raised by __init__ ("none" or "ValueError")
    debug,             \* self._debug
    with_rcnn,         \* self._with_rcnn
    pretrained_class,  \* self._pretrained_class
    anchor_stride,     \* self._anchor_stride
    anchor_reference,  \* self._anchor_reference, an (A, 4) array
    modules,           \* sub-networks instantiated so far
    regularization,    \* sum of the graph's REGULARIZATION_LOSSES collection
    calls,             \* stage invocations of the last forward call, in order
    prediction_dict,   \* the bundle returned by the last forward call
    losses,            \* the graph's LOSSES collection (tf.losses.add_loss)
    total_loss,        \* value returned by the last loss call
    no_reg_loss,       \* 'no_reg_loss' summary of the last loss call
    pretrained_type,   \* the pretrained_type argument __init__ was called with
    last_op            \* last operation performed on the orchestrator

vars == <<status, error, debug, with_rcnn, pretrained_class, anchor_stride,
          anchor_reference, modules, regularization, calls, prediction_dict,
          losses, total_loss, no_reg_loss, pretrained_type, last_op>>

----------------------------------------------------------------------------
(* Bounds of the model *)

MaxH == 2
MaxW == 3
MaxAnchors == 2
MaxLossCalls == 2

(* Inputs *)

Heights == 1..MaxH
Widths == 1..MaxW
Strides == {1, 16}
RawLosses == {[rpn |-> <<1, 1>>, rcnn |-> <<1, 1>>], [rpn |-> <<1, 2>>, rcnn |-> <<3, 4>>]}
RegularizationValues == {1}
GtBoxSets == {<< <<0, 0, 1, 1>> >>}
Images == {[height |-> 16 * h, width |-> 16 * w] : h \in Heights, w \in Widths}
PretrainedTypes == {"vgg", "resnet", "resnetv2", "alexnet"}

\* Reference anchors as generate_anchors_reference returns them: distinct
\* boxes around one common centre, negative coordinates included.
ReferenceBox(a) == <<0 - 2 * a, 0 - a, 2 * a, a>>
ReferenceAnchors(n) == [a \in 1..n |-> ReferenceBox(a)]
ReferenceSets == {ReferenceAnchors(n) : n \in 1..MaxAnchors}

None == "none"

----------------------------------------------------------------------------
(* PRETRAINED_MODULES *)

PRETRAINED_MODULES ==
    [t \in {"vgg", "resnet", "resnetv2"} |-> IF t = "vgg" THEN "VGG" ELSE "ResNetV2"]

----------------------------------------------------------------------------
(* Tensor operations used by _generate_anchors *)

Max(a, b) == IF a >= b THEN a ELSE b

\* F applied to the value of v (v is evaluated once)
Once(v, F(_)) == CHOOSE r \in {F(x) : x \in {v}} : TRUE

\* tf.range(n)
Range(n) == [i \in 1..n |-> i - 1]

\* vector * scalar
Times(v, s) == [i \in DOMAIN v |-> v[i] * s]

\* meshgrid(x, y): two (len(y), len(x)) grids, xgrid[r][c] = x[c], ygrid[r][c] = y[r]
meshgrid(x, y) ==
    << [r \in 1..Len(y) |-> [c \in 1..Len(x) |-> x[c]]],
       [r \in 1..Len(y) |-> [c \in 1..Len(x) |-> y[r]]] >>

\* tf.reshape(m, [-1]) of a rank-2 tensor: row-major flattening
ReshapeFlat(m) ==
    Once(m, LAMBDA t :
        LET rows == Len(t)
            cols == IF rows = 0 THEN 0 ELSE Len(t[1])
        IN  [n \in 1..(rows * cols) |-> t[((n - 1) \div cols) + 1][((n - 1) % cols) + 1]])

\* tf.stack(vs, axis=0): the vectors become the rows
Stack0(vs) == vs

\* tf.transpose of a rank-2 tensor
Transpose(m) ==
    Once(m, LAMBDA t :
        LET rows == Len(t)
            cols == IF rows = 0 THEN 0 ELSE Len(t[1])
        IN  [c \in 1..cols |-> [r \in 1..rows |-> t[r][c]]])

\* reshape of an (N, 4) tensor to (1, N, 4)
Reshape1N4(m) == <<m>>

\* tf.transpose(t, (1, 0, 2)) of a rank-3 tensor
Transpose102(m) ==
    Once(m, LAMBDA t :
        LET d0 == Len(t)
            d1 == IF d0 = 0 THEN 0 ELSE Len(t[1])
        IN  [b \in 1..d1 |-> [a \in 1..d0 |-> t[a][b]]])

\* x + y with broadcasting over the first two axes of rank-3 tensors
BroadcastAdd(x, y) ==
    Once(<<x, y>>, LAMBDA p :
        LET d0 == Max(Len(p[1]), Len(p[2]))
            d1 == Max(Len(p[1][1]), Len(p[2][1]))
            Ix(t, i) == IF Len(t) = 1 THEN 1 ELSE i
            Jx(t, j) == IF Len(t[1]) = 1 THEN 1 ELSE j
        IN  [i \in 1..d0 |-> [j \in 1..d1 |-> [c \in 1..4 |->
                p[1][Ix(p[1], i)][Jx(p[1], j)][c] + p[2][Ix(p[2], i)][Jx(p[2], j)][c]]]])

\* tf.reshape(t, (d0 * d1, 4)) of a (d0, d1, 4) tensor
ReshapeN4(m) ==
    Once(m, LAMBDA t :
        LET d0 == Len(t)
            d1 == IF d0 = 0 THEN 0 ELSE Len(t[1])
        IN  [n \in 1..(d0 * d1) |-> t[((n - 1) \div d1) + 1][((n - 1) % d1) + 1]])

\* Shifts with grid_width read from the height entry of the shape
ShiftsSquareGrid(stride, feature_map_shape) ==
    LET grid_width == feature_map_shape[1]
        grid_height == feature_map_shape[1]
        sx == Times(Range(grid_width), stride)
        sy == Times(Range(grid_height), stride)
    IN  Once(meshgrid(sx, sy), LAMBDA grids :
          Once(<<ReshapeFlat(grids[1]), ReshapeFlat(grids[2])>>, LAMBDA flat :
            Transpose(Stack0(<<flat[1], flat[2], flat[1], flat[2]>>))))

\* Shifts with the x and y shifts stacked in the wrong columns
ShiftsSwapped(stride, feature_map_shape) ==
    LET grid_width == feature_map_shape[2]
        grid_height == feature_map_shape[1]
        sx == Times(Range(grid_width), stride)
        sy == Times(Range(grid_height), stride)
    IN  Once(meshgrid(sx, sy), LAMBDA grids :
          Once(<<ReshapeFlat(grids[1]), ReshapeFlat(grids[2])>>, LAMBDA flat :
            Transpose(Stack0(<<flat[2], flat[1], flat[2], flat[1]>>))))

\* The (H x W, 4) shifts tensor of _generate_anchors
Shifts(stride, feature_map_shape) ==
    LET grid_width == feature_map_shape[2]
        grid_height == feature_map_shape[1]
        sx == Times(Range(grid_width), stride)
        sy == Times(Range(grid_height), stride)
    IN  Once(meshgrid(sx, sy), LAMBDA grids :
          Once(<<ReshapeFlat(grids[1]), ReshapeFlat(grids[2])>>, LAMBDA flat :
            Transpose(Stack0(<<flat[1], flat[2], flat[1], flat[2]>>))))

\* _generate_anchors with the transposition applied to the reference anchors
\* instead of the shifts: an (A, K, 4) sum, anchor-major after the reshape
generate_anchors_anchor_major(reference, stride, feature_map_shape) ==
    LET shifts == Shifts(stride, feature_map_shape)
        all_anchors ==
            BroadcastAdd(Transpose102(Reshape1N4(reference)), Reshape1N4(shifts))
    IN  ReshapeN4(all_anchors)

\* FasterRCNN._generate_anchors
generate_anchors(reference, stride, feature_map_shape) ==
    LET shifts == Shifts(stride, feature_map_shape)
        all_anchors ==
            BroadcastAdd(Reshape1N4(reference), Transpose102(Reshape1N4(shifts)))
    IN  ReshapeN4(all_anchors)

----------------------------------------------------------------------------
(* The collaborating stages, by their interfaces *)

\* self._pretrained(image, is_training): the backbone's output dictionary
Pretrained(image, is_training) ==
    [net |-> [shape |-> <<image.height \div 16, image.width \div 16>>, of |-> image]]

\* self._rpn(feature_map, gt_boxes, image_shape, all_anchors, is_training);
\* raw holds the stage's own loss values for this prediction
RPNStage(feature_map, gt_boxes, image_shape, all_anchors, is_training, raw) ==
    [proposals |-> [of |-> feature_map, anchors |-> Len(all_anchors), gt |-> gt_boxes],
     cls_loss |-> raw[1], reg_loss |-> raw[2]]

\* self._roi_pool(proposals, feature_map, image_shape)
ROIPoolStage(proposals, feature_map, image_shape) ==
    [roi_pool |-> [pooled |-> proposals, from |-> feature_map]]

\* self._rcnn(roi_pool, proposals, gt_boxes, image_shape)
RCNNStage(roi_pool, proposals, gt_boxes, image_shape, raw) ==
    [of |-> roi_pool, rois |-> proposals, cls_loss |-> raw[1], reg_loss |-> raw[2]]

\* self._rpn.loss(rpn_prediction)
RPNLoss(rpn_prediction) ==
    [rpn_cls_loss |-> rpn_prediction.cls_loss, rpn_reg_loss |-> rpn_prediction.reg_loss]

\* self._rcnn.loss(classification_prediction)
RCNNLoss(classification_prediction) ==
    [rcnn_cls_loss |-> classification_prediction.cls_loss,
     rcnn_reg_loss |-> classification_prediction.reg_loss]

----------------------------------------------------------------------------
(* Loss weights set by __init__ *)

rpn_cls_loss_weight == 1
rpn_reg_loss_weight == 2
rcnn_cls_loss_weight == 1
rcnn_reg_loss_weight == 2

----------------------------------------------------------------------------
(* The graph's loss collections *)

RECURSIVE SumLosses(_)
\* tf.losses.get_total_loss(add_regularization_losses=False)
SumLosses(ls) == IF ls = << >> THEN 0 ELSE ls[1].value + SumLosses(Tail(ls))

\* list(d.items()) of a stage's loss dictionary
RPNItems(d) == << [name |-> "rpn_cls_loss", value |-> d.rpn_cls_loss],
                  [name |-> "rpn_reg_loss", value |-> d.rpn_reg_loss] >>
RCNNItems(d) == << [name |-> "rcnn_cls_loss", value |-> d.rcnn_cls_loss],
                   [name |-> "rcnn_reg_loss", value |-> d.rcnn_reg_loss] >>

----------------------------------------------------------------------------
(* State after module import: no orchestrator constructed yet *)

Init ==
    /\ status = "new"
    /\ error = None
    /\ debug = FALSE
    /\ with_rcnn = FALSE
    /\ pretrained_class = None
    /\ anchor_stride = 0
    /\ anchor_reference = << >>
    /\ modules = {}
    /\ regularization = 0
    /\ calls = << >>
    /\ prediction_dict = << >>
    /\ losses = << >>
    /\ total_loss = 0
    /\ no_reg_loss = 0
    /\ pretrained_type = None
    /\ last_op = "import"

\* Instantiation that ignores with_rcnn
InstantiatedAll(rcnn) == {"pretrained", "rpn", "roi_pool", "rcnn"}

\* Sub-networks instantiated by __init__ once the backbone type is accepted
Instantiated(rcnn) ==
    {"pretrained", "rpn"} \cup (IF rcnn THEN {"roi_pool", "rcnn"} ELSE {})

\* __init__ with the backbone type checked after the sub-networks are instantiated
ConstructLateCheck(dbg, rcnn, ptype, stride, reference, reg) ==
    /\ status = "new"
    /\ pretrained_type' = ptype
    /\ debug' = dbg
    /\ with_rcnn' = rcnn
    /\ anchor_stride' = stride
    /\ anchor_reference' = reference
    /\ modules' = Instantiated(rcnn)
    /\ IF ptype \notin DOMAIN PRETRAINED_MODULES
       THEN /\ status' = "failed"
            /\ error' = "ValueError"
            /\ pretrained_class' = None
            /\ regularization' = 0
       ELSE /\ status' = "ready"
            /\ error' = None
            /\ pretrained_class' = PRETRAINED_MODULES[ptype]
            /\ regularization' = reg
    /\ last_op' = "construct"
    /\ UNCHANGED <<calls, prediction_dict, losses, total_loss, no_reg_loss>>

\* FasterRCNN.__init__
Construct(dbg, rcnn, ptype, stride, reference, reg) ==
    /\ status = "new"
    /\ pretrained_type' = ptype
    /\ debug' = dbg
    /\ with_rcnn' = rcnn
    /\ anchor_stride' = stride
    /\ anchor_reference' = reference
    /\ IF ptype \notin DOMAIN PRETRAINED_MODULES
       THEN /\ status' = "failed"
            /\ error' = "ValueError"
            /\ pretrained_class' = None
            /\ modules' = {}
            /\ regularization' = 0
       ELSE /\ status' = "ready"
            /\ error' = None
            /\ pretrained_class' = PRETRAINED_MODULES[ptype]
            /\ modules' = Instantiated(rcnn)
            /\ regularization' = reg
    /\ last_op' = "construct"
    /\ UNCHANGED <<calls, prediction_dict, losses, total_loss, no_reg_loss>>

\* One stage invocation in the log of a forward call
Call(stage, inputs, output) == [stage |-> stage, inputs |-> inputs, output |-> output]

\* _build running ROI pooling and the classification stage unconditionally
BuildCallsAlways(image, gt_boxes, is_training, rpn_raw, rcnn_raw) ==
    LET image_shape == <<image.height, image.width>>
        pretrained_dict == Pretrained(image, is_training)
        pretrained_feature_map == pretrained_dict.net
    IN  Once(generate_anchors(anchor_reference, anchor_stride, pretrained_feature_map.shape),
             LAMBDA all_anchors :
        LET rpn_prediction == RPNStage(pretrained_feature_map, gt_boxes, image_shape,
                                       all_anchors, is_training, rpn_raw)
            roi_prediction == ROIPoolStage(rpn_prediction.proposals,
                                           pretrained_feature_map, image_shape)
            classification_prediction ==
                RCNNStage(roi_prediction.roi_pool, rpn_prediction.proposals,
                          gt_boxes, image_shape, rcnn_raw)
        IN  << Call("pretrained", [image |-> image], pretrained_dict),
               Call("generate_anchors", [feature_map |-> pretrained_feature_map],
                    all_anchors),
               Call("rpn", [feature_map |-> pretrained_feature_map,
                            all_anchors |-> all_anchors], rpn_prediction) >>
            \o (IF TRUE
                THEN << Call("roi_pool", [proposals |-> rpn_prediction.proposals,
                                          feature_map |-> pretrained_feature_map],
                             roi_prediction),
                        Call("rcnn", [roi_pool |-> roi_prediction.roi_pool,
                                      proposals |-> rpn_prediction.proposals],
                             classification_prediction) >>
                ELSE << >>))

\* The stage invocations of FasterRCNN._build, in program order
BuildCalls(image, gt_boxes, is_training, rpn_raw, rcnn_raw) ==
    LET image_shape == <<image.height, image.width>>
        pretrained_dict == Pretrained(image, is_training)
        pretrained_feature_map == pretrained_dict.net
    IN  Once(generate_anchors(anchor_reference, anchor_stride, pretrained_feature_map.shape),
             LAMBDA all_anchors :
        LET rpn_prediction == RPNStage(pretrained_feature_map, gt_boxes, image_shape,
                                       all_anchors, is_training, rpn_raw)
            roi_prediction == ROIPoolStage(rpn_prediction.proposals,
                                           pretrained_feature_map, image_shape)
            classification_prediction ==
                RCNNStage(roi_prediction.roi_pool, rpn_prediction.proposals,
                          gt_boxes, image_shape, rcnn_raw)
        IN  << Call("pretrained", [image |-> image], pretrained_dict),
               Call("generate_anchors", [feature_map |-> pretrained_feature_map],
                    all_anchors),
               Call("rpn", [feature_map |-> pretrained_feature_map,
                            all_anchors |-> all_anchors], rpn_prediction) >>
            \o (IF with_rcnn
                THEN << Call("roi_pool", [proposals |-> rpn_prediction.proposals,
                                          feature_map |-> pretrained_feature_map],
                             roi_prediction),
                        Call("rcnn", [roi_pool |-> roi_prediction.roi_pool,
                                      proposals |-> rpn_prediction.proposals],
                             classification_prediction) >>
                ELSE << >>))

\* prediction_dict with 'all_anchors' stored outside the debug block
BuildDictAnchorsAlways(image, gt_boxes, log) ==
    ("rpn_prediction" :> log[3].output)
    @@ ("all_anchors" :> log[2].output)
    @@ (IF debug
        THEN ("image" :> image)
             @@ ("image_shape" :> <<image.height, image.width>>)
             @@ ("gt_boxes" :> gt_boxes)
             @@ ("pretrained_dict" :> log[1].output)
        ELSE << >>)
    @@ (IF with_rcnn
        THEN ("classification_prediction" :> log[5].output)
             @@ (IF debug THEN ("roi_prediction" :> log[4].output) ELSE << >>)
        ELSE << >>)

\* The prediction_dict assembled by FasterRCNN._build from its stage outputs
BuildDict(image, gt_boxes, log) ==
    ("rpn_prediction" :> log[3].output)
    @@ (IF debug
        THEN ("image" :> image)
             @@ ("image_shape" :> <<image.height, image.width>>)
             @@ ("all_anchors" :> log[2].output)
             @@ ("gt_boxes" :> gt_boxes)
             @@ ("pretrained_dict" :> log[1].output)
        ELSE << >>)
    @@ (IF with_rcnn
        THEN ("classification_prediction" :> log[5].output)
             @@ (IF debug THEN ("roi_prediction" :> log[4].output) ELSE << >>)
        ELSE << >>)

\* _build that re-derives the stride from the image and the feature map
BuildRecomputeStride(image, gt_boxes, is_training, rpn_raw, rcnn_raw) ==
    /\ status = "ready"
    /\ \E log \in {BuildCalls(image, gt_boxes, is_training, rpn_raw, rcnn_raw)} :
           /\ calls' = log
           /\ prediction_dict' = BuildDict(image, gt_boxes, log)
           /\ anchor_stride' = image.height \div log[1].output.net.shape[1]
    /\ last_op' = "build"
    /\ UNCHANGED <<status, error, debug, with_rcnn, pretrained_class,
                   anchor_reference, modules, regularization, losses, total_loss,
                   no_reg_loss, pretrained_type>>

\* FasterRCNN._build (the forward call)
Build(image, gt_boxes, is_training, rpn_raw, rcnn_raw) ==
    /\ status = "ready"
    /\ \E log \in {BuildCalls(image, gt_boxes, is_training, rpn_raw, rcnn_raw)} :
           /\ calls' = log
           /\ prediction_dict' = BuildDict(image, gt_boxes, log)
    /\ last_op' = "build"
    /\ UNCHANGED <<status, error, debug, with_rcnn, pretrained_class, anchor_stride,
                   anchor_reference, modules, regularization, losses, total_loss,
                   no_reg_loss, pretrained_type>>

\* The weighted rpn_loss_dict of FasterRCNN.loss
WeightedRPN(rpn_prediction) ==
    LET d == RPNLoss(rpn_prediction)
    IN  [rpn_cls_loss |-> d.rpn_cls_loss * rpn_cls_loss_weight,
         rpn_reg_loss |-> d.rpn_reg_loss * rpn_reg_loss_weight]

\* The weighted rcnn_loss_dict of FasterRCNN.loss
WeightedRCNN(classification_prediction) ==
    LET d == RCNNLoss(classification_prediction)
    IN  [rcnn_cls_loss |-> d.rcnn_cls_loss * rcnn_cls_loss_weight,
         rcnn_reg_loss |-> d.rcnn_reg_loss * rcnn_reg_loss_weight]

\* The loss tensors FasterRCNN.loss registers with tf.losses.add_loss
AddedLosses(pd) ==
    RPNItems(WeightedRPN(pd["rpn_prediction"]))
    \o (IF with_rcnn THEN RCNNItems(WeightedRCNN(pd["classification_prediction"]))
        ELSE << >>)

\* FasterRCNN.loss, applied to the bundle of the last forward call
Loss ==
    /\ status = "ready"
    /\ last_op \in {"build", "loss"}
    /\ Len(losses) < MaxLossCalls * Len(AddedLosses(prediction_dict))
    /\ prediction_dict' =
          (IF with_rcnn
           THEN ("rcnn_loss_dict" :> WeightedRCNN(prediction_dict["classification_prediction"]))
           ELSE << >>)
          @@ ("rpn_loss_dict" :> WeightedRPN(prediction_dict["rpn_prediction"]))
          @@ prediction_dict
    /\ losses' = losses \o AddedLosses(prediction_dict)
    /\ no_reg_loss' = SumLosses(losses')
    /\ total_loss' = SumLosses(losses') + regularization
    /\ last_op' = "loss"
    /\ UNCHANGED <<status, error, debug, with_rcnn, pretrained_class, anchor_stride,
                   anchor_reference, modules, regularization, calls, pretrained_type>>

Next ==
    \/ \E dbg \in BOOLEAN, rcnn \in BOOLEAN, t \in PretrainedTypes, s \in Strides,
          r \in ReferenceSets, reg \in RegularizationValues :
          Construct(dbg, rcnn, t, s, r, reg)
    \/ \E image \in Images, gt \in GtBoxSets, raw \in RawLosses :
          Build(image, gt, TRUE, raw.rpn, raw.rcnn)
    \/ Loss

Spec == Init /\ [][Next]_vars

----------------------------------------------------------------------------
(* The last forward call *)

Forwarded == status = "ready" /\ calls # << >>
FeatureShape == calls[1].output.net.shape
GridHeight == FeatureShape[1]
GridWidth == FeatureShape[2]
AllAnchors == calls[2].output
NumAnchors == Len(anchor_reference)

\* Box r translated by dx in x and dy in y
Translate(r, dx, dy) == <<r[1] + dx, r[2] + dy, r[3] + dx, r[4] + dy>>

\* C1: a forward call's anchor grid has exactly H*W*A boxes of 4 coordinates each.
C1_AnchorCount ==
    Forwarded =>
        /\ Len(AllAnchors) = GridHeight * GridWidth * NumAnchors
        /\ \A n \in DOMAIN AllAnchors : Len(AllAnchors[n]) = 4

C1_Witness ==
    /\ Forwarded
    /\ FeatureShape = <<2, 3>>
    /\ NumAnchors = 2
    /\ Len(AllAnchors) = 12

\* C2: the anchor grid holds, exactly once each, the boxes
\* (x1 + i*S, y1 + j*S, x2 + i*S, y2 + j*S) for the cells 0 <= i < W, 0 <= j < H and
\* the reference anchors (x1, y1, x2, y2), and no other box; nothing is clipped.
C2_AnchorBoxes ==
    Forwarded =>
        LET cells == (0..(GridWidth - 1)) \X (0..(GridHeight - 1))
            Box(cell, a) == Translate(anchor_reference[a], cell[1] * anchor_stride,
                                      cell[2] * anchor_stride)
        IN  /\ \A cell \in cells, a \in 1..NumAnchors :
                  Cardinality({n \in DOMAIN AllAnchors : AllAnchors[n] = Box(cell, a)}) = 1
            /\ \A n \in DOMAIN AllAnchors :
                  \E cell \in cells, a \in 1..NumAnchors : AllAnchors[n] = Box(cell, a)

C2_Witness ==
    /\ Forwarded
    /\ FeatureShape = <<2, 3>>
    /\ anchor_stride = 16
    /\ \E n \in DOMAIN AllAnchors :
          /\ AllAnchors[n] = Translate(anchor_reference[1], 0, 16)
          /\ AllAnchors[n][1] < 0
    /\ \E n \in DOMAIN AllAnchors : AllAnchors[n] = Translate(anchor_reference[1], 32, 16)

\* C3: in the flat anchor grid the box at index k*A + a (0-based) is reference
\* anchor a translated by the shift of cell k, so the A boxes of a cell are
\* contiguous, in reference order, and share one shift.
C3_CellContiguous ==
    Forwarded =>
        LET shifts == Shifts(anchor_stride, FeatureShape)
            K == GridHeight * GridWidth
        IN  /\ Len(shifts) = K
            /\ \A k \in 0..(K - 1), a \in 0..(NumAnchors - 1) :
                  AllAnchors[k * NumAnchors + a + 1] =
                      Translate(anchor_reference[a + 1], shifts[k + 1][1], shifts[k + 1][2])

C3_Witness ==
    /\ Forwarded
    /\ FeatureShape = <<2, 3>>
    /\ NumAnchors = 2
    /\ anchor_stride = 16
    /\ AllAnchors[5] = Translate(anchor_reference[1], 32, 0)
    /\ AllAnchors[6] = Translate(anchor_reference[2], 32, 0)

\* C4: with the classification head enabled, loss weights the four terms by
\* 1, 2, 1, 2 and the total without regularization is
\* rpn_cls + 2*rpn_reg + rcnn_cls + 2*rcnn_reg of the bundle's raw losses.
C4_WeightedTotal ==
    (status = "ready" /\ with_rcnn /\ last_op = "loss") =>
        LET rpn == prediction_dict["rpn_prediction"]
            rcnn == prediction_dict["classification_prediction"]
        IN  /\ prediction_dict["rpn_loss_dict"].rpn_cls_loss = 1 * rpn.cls_loss
            /\ prediction_dict["rpn_loss_dict"].rpn_reg_loss = 2 * rpn.reg_loss
            /\ prediction_dict["rcnn_loss_dict"].rcnn_cls_loss = 1 * rcnn.cls_loss
            /\ prediction_dict["rcnn_loss_dict"].rcnn_reg_loss = 2 * rcnn.reg_loss
            /\ no_reg_loss = rpn.cls_loss + 2 * rpn.reg_loss
                             + rcnn.cls_loss + 2 * rcnn.reg_loss

\* C5: with the classification head disabled, ROI pooling and the
\* classification stage are never constructed or invoked, the bundle has no
\* 'classification_prediction', 'roi_prediction' or 'rcnn_loss_dict' key, and
\* only RPN terms are added to the total.
C5_RPNOnly ==
    (status = "ready" /\ ~with_rcnn) =>
        /\ modules \cap {"roi_pool", "rcnn"} = {}
        /\ \A n \in DOMAIN calls : calls[n].stage \notin {"roi_pool", "rcnn"}
        /\ (DOMAIN prediction_dict)
              \cap {"classification_prediction", "roi_prediction", "rcnn_loss_dict"} = {}
        /\ \A n \in DOMAIN losses : losses[n].name \in {"rpn_cls_loss", "rpn_reg_loss"}
        /\ last_op = "loss" => no_reg_loss = SumLosses(losses)

C5_Witness ==
    /\ status = "ready"
    /\ ~with_rcnn
    /\ debug
    /\ last_op = "loss"
    /\ "rpn_loss_dict" \in DOMAIN prediction_dict
    /\ Len(losses) = 2

\* C6: __init__ with a backbone type outside {vgg, resnet, resnetv2} raises
\* ValueError before any sub-network is instantiated and leaves no orchestrator
\* to call; with a supported type it does not raise, and resnet and resnetv2
\* select the same class.
C6_FailFast ==
    status # "new" =>
        /\ pretrained_type \notin {"vgg", "resnet", "resnetv2"} =>
              /\ status = "failed"
              /\ error = "ValueError"
              /\ modules = {}
              /\ calls = << >>
              /\ last_op = "construct"
        /\ pretrained_type \in {"vgg", "resnet", "resnetv2"} =>
              /\ status = "ready"
              /\ error = None
              /\ {"pretrained", "rpn"} \subseteq modules
        /\ pretrained_type \in {"resnet", "resnetv2"} => pretrained_class = "ResNetV2"

C6_Witness ==
    /\ status = "failed"
    /\ pretrained_type = "alexnet"
    /\ error = "ValueError"

\* C7: a forward call runs backbone, anchor generation, region-proposal stage
\* and, only with the classification head, ROI pooling and the classification
\* stage, in this order and once each; the region-proposal stage gets the
\* backbone's feature map and the call's anchor grid, ROI pooling and the
\* classification stage get the region-proposal stage's proposals.
C7_StageOrder ==
    Forwarded =>
        /\ [n \in DOMAIN calls |-> calls[n].stage] =
              (IF with_rcnn
               THEN <<"pretrained", "generate_anchors", "rpn", "roi_pool", "rcnn">>
               ELSE <<"pretrained", "generate_anchors", "rpn">>)
        /\ calls[2].inputs.feature_map = calls[1].output.net
        /\ calls[3].inputs.feature_map = calls[1].output.net
        /\ calls[3].inputs.all_anchors = calls[2].output
        /\ with_rcnn =>
              /\ calls[4].inputs.proposals = calls[3].output.proposals
              /\ calls[4].inputs.feature_map = calls[1].output.net
              /\ calls[5].inputs.proposals = calls[3].output.proposals
              /\ calls[5].inputs.roi_pool = calls[4].output.roi_pool

C7_Witness ==
    /\ Forwarded
    /\ with_rcnn
    /\ Len(calls) = 5
    /\ calls[5].stage = "rcnn"

\* The keys _build is to return for the orchestrator's flags
ExpectedKeys ==
    {"rpn_prediction"}
    \cup (IF with_rcnn THEN {"classification_prediction"} ELSE {})
    \cup (IF debug THEN {"image", "image_shape", "all_anchors", "gt_boxes", "pretrained_dict"}
          ELSE {})
    \cup (IF debug /\ with_rcnn THEN {"roi_prediction"} ELSE {})

\* C8: the bundle a forward call returns has 'rpn_prediction' always,
\* 'classification_prediction' iff the classification head is on, the five raw
\* intermediates iff debug is on, 'roi_prediction' iff both are on, and no other key.
C8_BundleKeys ==
    (status = "ready" /\ last_op = "build") => DOMAIN prediction_dict = ExpectedKeys

C8_Witness ==
    /\ status = "ready"
    /\ last_op = "build"
    /\ debug
    /\ with_rcnn
    /\ "roi_prediction" \in DOMAIN prediction_dict
    /\ Cardinality(DOMAIN prediction_dict) = 8

\* The sum of the itemized weighted terms loss stored in the bundle
BundleTotal ==
    prediction_dict["rpn_loss_dict"].rpn_cls_loss
    + prediction_dict["rpn_loss_dict"].rpn_reg_loss
    + (IF with_rcnn
       THEN prediction_dict["rcnn_loss_dict"].rcnn_cls_loss
            + prediction_dict["rcnn_loss_dict"].rcnn_reg_loss
       ELSE 0)

\* C9: loss is a stateless map from the bundle to the total: whatever loss
\* calls came before, the total (and the total without regularization) is the
\* one the bundle's own terms give, earlier terms not being counted again.
C9_StatelessLoss ==
    (status = "ready" /\ last_op = "loss") =>
        /\ no_reg_loss = BundleTotal
        /\ total_loss = BundleTotal + regularization

====
